---- MODULE Spec2Model ----
(***************************************************************************)
(* A model of src/app.py: the Streamlit script that reads an uploaded      *)
(* file into a pandas DataFrame and runs it through the filter, cleaning,  *)
(* analysis and aggregation sections of main().                            *)
(*                                                                         *)
(* A DataFrame is a sequence of rows; a row is a record with one field per *)
(* column.  DataFrame objects live in `heap`; the script variable `data`   *)
(* holds a reference, so that rebinding (data = data[...]) and in-place    *)
(* mutation (fillna(..., inplace=True)) are different things.              *)
(* pandas semantics are those of the classic (non copy-on-write) API the   *)
(* script is written against.                                              *)
(***************************************************************************)
EXTENDS Integers, Sequences, FiniteSets, TLC

VARIABLES
    pc,               \* position of the script run inside main()
    dtypes,           \* data.dtypes: column -> "number" (float64/int64) or "object"
    heap,             \* DataFrame objects: reference -> sequence of rows
    data,             \* the script variable `data`: a reference into heap
    todo,             \* columns a running for-loop still has to visit
    allowed,          \* filter section: column -> selected_values, for visited columns
    stageStart,       \* contents of `data` when the running section began
    pre,              \* contents of `data` before the last operation
    op,               \* the last pandas operation: [name, column]
    reported,         \* the count line 59 has just written (-1: the last step wrote none)
    err,              \* the exception that ended the run ("" if none)
    numeric_columns,  \* line 89
    grouped_data,     \* line 164
    file,             \* read_file: the uploaded file object [ext, bytes]
    pos,              \* read_file: read position of the file object
    rpc,              \* read_file: position inside read_file
    result            \* read_file: what it returned or raised

vars == <<pc, dtypes, heap, data, todo, allowed, stageStart, pre, op, reported,
          err, numeric_columns, grouped_data, file, pos, rpc, result>>

pipeVars == <<pc, dtypes, heap, data, todo, allowed, stageStart, pre, op,
              reported, err, numeric_columns, grouped_data>>

ingestVars == <<file, pos, rpc, result>>

-----------------------------------------------------------------------------
(* Bounds *)

\* rows of an uploaded table
MaxRows == 3

\* bytes of an uploaded file
MaxLen == 4

\* bytes the text reader takes from the file object at a time
ChunkSize == 2

-----------------------------------------------------------------------------
(* Cell values: a number (a rational n/d in lowest terms), a string, or    *)
(* NaN/None.  One record shape for all three, so that cells compare.       *)

RECURSIVE Gcd(_, _)
Gcd(a, b) == IF b = 0 THEN a ELSE Gcd(b, a % b)

Abs(x) == IF x < 0 THEN -x ELSE x

Rat(n, d) ==
    LET g == Gcd(Abs(n), d)
    IN  [k |-> "num", n |-> n \div g, d |-> d \div g, s |-> ""]

Num(n) == [k |-> "num", n |-> n, d |-> 1, s |-> ""]

Str(s) == [k |-> "str", n |-> 0, d |-> 1, s |-> s]

Null == [k |-> "null", n |-> 0, d |-> 1, s |-> ""]

IsNull(v) == v.k = "null"

\* the strings of the model, in sort order
Strings == <<"x", "y">>

StrRank(s) == CHOOSE i \in DOMAIN Strings : Strings[i] = s

\* v < w, for two numbers or two strings
Less(v, w) ==
    IF v.k = "num" /\ w.k = "num" THEN v.n * w.d < w.n * v.d
    ELSE IF v.k = "str" /\ w.k = "str" THEN StrRank(v.s) < StrRank(w.s)
    ELSE FALSE

Add(v, w) == Rat(v.n * w.d + w.n * v.d, v.d * w.d)

-----------------------------------------------------------------------------
(* Tables *)

Columns == <<"A", "B">>

ColumnSet == {Columns[i] : i \in DOMAIN Columns}

\* what a cell of each column of an uploaded file can hold
CellValues(c) ==
    IF c = "A" THEN {Num(1), Num(2), Null}
    ELSE {Str(Strings[1]), Str(Strings[2]), Null}

Rows == [A : CellValues("A"), B : CellValues("B")]

Tables == UNION {[1..n -> Rows] : n \in 0..MaxRows}

Column(store, c) == [i \in DOMAIN store |-> store[i][c]]

RECURSIVE Pick(_, _, _)
\* the rows of s at the positions in keep, from position i on, in order
Pick(s, keep, i) ==
    IF i > Len(s) THEN <<>>
    ELSE (IF i \in keep THEN <<s[i]>> ELSE <<>>) \o Pick(s, keep, i + 1)

\* data[column].unique()
Unique(store, c) == {store[i][c] : i \in DOMAIN store}

\* the mask negated: data[~data[column].isin(selected_values)]
RestrictNegated(store, c, selected) ==
    Pick(store, {i \in DOMAIN store : store[i][c] \notin selected}, 1)

\* data[data[column].isin(selected_values)]
Restrict(store, c, selected) ==
    Pick(store, {i \in DOMAIN store : store[i][c] \in selected}, 1)

\* `if selected_values:` with the guard left out
FilterAppliesAlways(selected) == TRUE

\* `if selected_values:` an empty selection is falsy
FilterApplies(selected) == selected # {}

\* data.drop_duplicates(): the first occurrence of every row is kept
DropDuplicates(store) ==
    Pick(store, {i \in DOMAIN store : \A j \in 1..(i - 1) : store[j] # store[i]}, 1)

\* the count line 59 writes, computed from `data` as it is on that line
RowsRemovedMessage(store) == Len(store) - Len(DropDuplicates(store))

\* a fresh reference for a DataFrame a pandas call returns
NewRef == IF data = 1 THEN 2 ELSE 1

\* the result written into the object `data` names, as with inplace=True
RebindInPlace(store) ==
    /\ heap' = (data :> store)
    /\ data' = data

\* data = <a new DataFrame>: the object `data` referred to stays as it was
Rebind(store) ==
    /\ heap' = (data :> heap[data]) @@ (NewRef :> store)
    /\ data' = NewRef

\* the objects still referenced once a statement is over: the one `data` names
Live == (data :> heap[data])

NoOp == [name |-> "", column |-> ""]

-----------------------------------------------------------------------------
(* The cleaning section's pandas calls *)

\* an exception, as a value of the cells' record shape
Raised(name) == [k |-> "err", n |-> 0, d |-> 1, s |-> name]

\* the non-null cells of a column, in row order (pandas skips NaN)
NonNull(store, c) ==
    LET col == Column(store, c)
    IN  Pick(col, {i \in DOMAIN col : ~IsNull(col[i])}, 1)

HasString(vals) == \E i \in DOMAIN vals : vals[i].k = "str"

RECURSIVE SumSeq(_)
SumSeq(vals) == IF vals = <<>> THEN Num(0) ELSE Add(Head(vals), SumSeq(Tail(vals)))

\* strings taken for numbers
SummableAlways(vals) == TRUE

\* whether the reductions can add the cells up: not so for strings
Summable(vals) == ~HasString(vals)

\* the mean with the division done on integers
SeriesMeanFloorDiv(vals) ==
    IF HasString(vals) THEN Raised("TypeError")
    ELSE IF vals = <<>> THEN Null
    ELSE LET t == SumSeq(vals) IN Num(t.n \div (t.d * Len(vals)))

\* Series.mean(): NaN for no values, TypeError for strings
SeriesMean(vals) ==
    IF ~Summable(vals) THEN Raised("TypeError")
    ELSE IF vals = <<>> THEN Null
    ELSE LET t == SumSeq(vals) IN Rat(t.n, t.d * Len(vals))

\* Series.median(): the middle of the sorted values, or the mean of the two middles
SeriesMedian(vals) ==
    IF ~Summable(vals) THEN Raised("TypeError")
    ELSE IF vals = <<>> THEN Null
    ELSE LET sorted == SortSeq(vals, Less)
             n == Len(vals)
         IN  IF n % 2 = 1 THEN sorted[(n + 1) \div 2]
             ELSE LET t == Add(sorted[n \div 2], sorted[n \div 2 + 1])
                  IN  Rat(t.n, t.d * 2)

Count(vals, v) == Cardinality({i \in DOMAIN vals : vals[i] = v})

\* Series.mode(): the most frequent values, sorted
Modes(vals) ==
    LET top == {v \in {vals[i] : i \in DOMAIN vals} :
                   \A j \in DOMAIN vals : Count(vals, vals[j]) <= Count(vals, v)}
    IN  SortSeq(Pick([i \in 1..Len(vals) |-> vals[i]],
                     {i \in DOMAIN vals : vals[i] \in top
                                          /\ \A j \in 1..(i - 1) : vals[j] # vals[i]}, 1),
                Less)

\* Series.mode()[0]: KeyError when the column has no value at all
SeriesMode(vals) ==
    IF Modes(vals) = <<>> THEN Raised("KeyError") ELSE Modes(vals)[1]

Methods == {"dropna", "mean", "median", "mode"}

\* the value lines 68, 70 and 72 hand to fillna
Statistic(method, vals) ==
    IF method = "mean" THEN SeriesMean(vals)
    ELSE IF method = "median" THEN SeriesMedian(vals)
    ELSE SeriesMode(vals)

\* data.fillna(value): every column, not the chosen one alone
FillnaAllColumns(store, c, value) ==
    [i \in DOMAIN store |->
        [x \in DOMAIN store[i] |->
            IF IsNull(store[i][x]) THEN value ELSE store[i][x]]]

\* data[column].fillna(value, inplace=True)
Fillna(store, c, value) ==
    [i \in DOMAIN store |->
        IF IsNull(store[i][c]) THEN [store[i] EXCEPT ![c] = value] ELSE store[i]]

\* data.dropna(subset=[column])
Dropna(store, c) ==
    Pick(store, {i \in DOMAIN store : ~IsNull(store[i][c])}, 1)

\* data.columns[data.isnull().any()].tolist()
MissingColumns(store) ==
    LET hasNull(c) == \E i \in DOMAIN store : IsNull(store[i][c])
    IN  SelectSeq(Columns, hasNull)

-----------------------------------------------------------------------------
(* The analysis and aggregation sections' pandas calls *)

\* the dtype read_file's parser gives a column: float64/int64 when it holds
\* no string and the table has a row (the columns of an empty table are object)
InferDtype(table, c) ==
    IF Len(table) > 0 /\ \A i \in DOMAIN table : table[i][c].k # "str"
    THEN "number" ELSE "object"

\* data.select_dtypes(include=['float64', 'int64']).columns
SelectNumeric(types) == {c \in ColumnSet : types[c] = "number"}

AggFunctions == {"mean", "sum", "max", "min"}

\* the reduction of one group's cells, NaN skipped
Reduce(fn, vals) ==
    IF fn = "sum" THEN SumSeq(vals)
    ELSE IF vals = <<>> THEN Null
    ELSE IF fn = "mean" THEN SeriesMean(vals)
    ELSE IF fn = "max" THEN SortSeq(vals, Less)[Len(vals)]
    ELSE SortSeq(vals, Less)[1]

SetToSeq(S) ==
    CHOOSE f \in [1..Cardinality(S) -> S] : \A i, j \in DOMAIN f : i # j => f[i] # f[j]

\* groupby(..., dropna=False): NaN keys form a group too
GroupKeysWithNull(store, g) == SortSeq(SetToSeq(Unique(store, g)), Less)

\* the group keys of groupby(group_column): NaN keys dropped, keys sorted
GroupKeys(store, g) ==
    SortSeq(SetToSeq({v \in Unique(store, g) : ~IsNull(v)}), Less)

\* data.groupby(group_column)[agg_column].agg(fn).reset_index()
GroupBy(store, g, a, fn) ==
    LET keys == GroupKeys(store, g)
    IN  [i \in DOMAIN keys |->
            (g :> keys[i]) @@
            (a :> Reduce(fn, NonNull(Restrict(store, g, {keys[i]}), a)))]

-----------------------------------------------------------------------------
(* read_file: decoding and parsing the bytes of an uploaded file *)

\* the bytes of the model: 'a', '\n', and two bytes above 0x7F.  0xD6 0xA4 is
\* one character in UTF-8 and in GB18030; 0xD6 'a' and 0xA4 0xD6 are
\* characters in GB18030 alone
ByteValues == {97, 10, 214, 164}

Payloads == UNION {[1..n -> ByteValues] : n \in 0..MaxLen}

Extensions == {"csv", "xlsx", "xls", "json", "txt"}

\* bytes a UTF-8 sequence starting with b takes; 0 when b cannot start one
Utf8Width(b) ==
    IF b < 128 THEN 1
    ELSE IF b >= 194 /\ b <= 223 THEN 2
    ELSE IF b >= 224 /\ b <= 239 THEN 3
    ELSE IF b >= 240 /\ b <= 244 THEN 4
    ELSE 0

Utf8Continuation(b) == b >= 128 /\ b <= 191

RECURSIVE Utf8Value(_, _, _, _)
Utf8Value(bytes, v, j, last) ==
    IF j > last THEN v ELSE Utf8Value(bytes, v * 64 + (bytes[j] - 128), j + 1, last)

Utf8Lead(b, w) ==
    IF w = 1 THEN b ELSE IF w = 2 THEN b - 192 ELSE IF w = 3 THEN b - 224 ELSE b - 240

RECURSIVE Utf8Decode(_, _)
\* bytes[i..] decoded as UTF-8: the text, or the position of the byte at which
\* the decoder raises UnicodeDecodeError
Utf8Decode(bytes, i) ==
    IF i > Len(bytes) THEN [ok |-> TRUE, text |-> <<>>, at |-> Len(bytes)]
    ELSE LET w == Utf8Width(bytes[i])
             last == IF i + w - 1 > Len(bytes) THEN Len(bytes) ELSE i + w - 1
             bad == {j \in (i + 1)..last : ~Utf8Continuation(bytes[j])}
         IN  IF w = 0 THEN [ok |-> FALSE, text |-> <<>>, at |-> i]
             ELSE IF bad # {}
             THEN [ok |-> FALSE, text |-> <<>>,
                   at |-> CHOOSE j \in bad : \A x \in bad : j <= x]
             ELSE IF i + w - 1 > Len(bytes)
             THEN [ok |-> FALSE, text |-> <<>>, at |-> Len(bytes)]
             ELSE LET rest == Utf8Decode(bytes, i + w)
                  IN  IF rest.ok
                      THEN [rest EXCEPT !.text =
                                <<Utf8Value(bytes, Utf8Lead(bytes[i], w), i + 1, last)>> \o @]
                      ELSE rest

Gb18030Lead(b) == b >= 129 /\ b <= 254

Gb18030Trail(b) == (b >= 64 /\ b <= 126) \/ (b >= 128 /\ b <= 254)

Gb18030Digit(b) == b >= 48 /\ b <= 57

RECURSIVE Gb18030Decode(_, _)
\* bytes[i..] decoded as GB18030.  A character of more than one byte is
\* written as a number above every UTF-8 code point that keeps its bytes
\* (the encoding's character table is one-to-one)
Gb18030Decode(bytes, i) ==
    IF i > Len(bytes) THEN [ok |-> TRUE, text |-> <<>>, at |-> Len(bytes)]
    ELSE LET b == bytes[i]
             more(n) == i + n <= Len(bytes)
             next(w, ch) ==
                 LET rest == Gb18030Decode(bytes, i + w)
                 IN  IF rest.ok THEN [rest EXCEPT !.text = <<ch>> \o @] ELSE rest
         IN  IF b < 128 THEN next(1, b)
             ELSE IF ~Gb18030Lead(b) THEN [ok |-> FALSE, text |-> <<>>, at |-> i]
             ELSE IF ~more(1) THEN [ok |-> FALSE, text |-> <<>>, at |-> Len(bytes)]
             ELSE IF Gb18030Trail(bytes[i + 1])
             THEN next(2, 2097152 + b * 256 + bytes[i + 1])
             ELSE IF Gb18030Digit(bytes[i + 1]) /\ more(3)
                     /\ Gb18030Lead(bytes[i + 2]) /\ Gb18030Digit(bytes[i + 3])
             THEN next(4, 4194304 + ((b * 10 + bytes[i + 1] - 48) * 256
                                      + bytes[i + 2]) * 10 + bytes[i + 3] - 48)
             ELSE [ok |-> FALSE, text |-> <<>>, at |-> i + 1]

RECURSIVE SplitLines(_, _)
\* the non-blank lines of a text (pandas skips blank lines); cur is the line
\* being read
SplitLines(text, cur) ==
    IF text = <<>> THEN (IF cur = <<>> THEN <<>> ELSE <<cur>>)
    ELSE IF Head(text) = 10
    THEN (IF cur = <<>> THEN <<>> ELSE <<cur>>) \o SplitLines(Tail(text), <<>>)
    ELSE SplitLines(Tail(text), Append(cur, Head(text)))

Returned(kind, lines) == [kind |-> kind, lines |-> lines, error |-> ""]

RaisedBy(error) == [kind |-> "raised", lines |-> <<>>, error |-> error]

\* the parser on decoded text: a table of lines (the first is the header),
\* or EmptyDataError when there is no line to take the columns from
ParseCsv(text) ==
    IF SplitLines(text, <<>>) = <<>> THEN RaisedBy("EmptyDataError")
    ELSE Returned("table", SplitLines(text, <<>>))

\* what a reader finds in the file object: the bytes from its position on
Remaining(f, p) == SubSeq(f.bytes, p + 1, Len(f.bytes))

\* the position of the file object after the reader took the byte at
\* position n of the payload: the end of that byte's chunk
ChunkEnd(f, n) ==
    LET e == ((n + ChunkSize - 1) \div ChunkSize) * ChunkSize
    IN  IF e > Len(f.bytes) THEN Len(f.bytes) ELSE e

\* pd.read_csv(file, encoding=...) from the file object's position
ReadCsv(decoded) ==
    IF decoded.ok THEN ParseCsv(decoded.text) ELSE RaisedBy("UnicodeDecodeError")

IngestInit ==
    /\ file \in [ext : Extensions, bytes : Payloads]
    /\ pos = 0
    /\ rpc = "called"
    /\ result = Returned("", <<>>)
    /\ pc = "upload"
    /\ dtypes = [c \in ColumnSet |-> "object"]
    /\ heap = <<>>
    /\ data = 0
    /\ todo = <<>>
    /\ allowed = <<>>
    /\ stageStart = <<>>
    /\ pre = <<>>
    /\ op = NoOp
    /\ reported = -1
    /\ err = ""
    /\ numeric_columns = {}
    /\ grouped_data = <<>>

\* lines 18-20: the UTF-8 attempt
ReadCsvUtf8 ==
    /\ rpc = "called"
    /\ file.ext = "csv"
    /\ LET decoded == Utf8Decode(Remaining(file, pos), 1)
       IN  IF decoded.ok
           THEN /\ result' = ReadCsv(decoded)
                /\ pos' = Len(file.bytes)
                /\ rpc' = "done"
           ELSE \* UnicodeDecodeError: control passes to the except clause
                /\ result' = result
                /\ pos' = ChunkEnd(file, pos + decoded.at)
                /\ rpc' = "except"
    /\ UNCHANGED <<file, pipeVars>>

\* lines 21-22: the GB18030 attempt, on the same file object
ReadCsvGb18030 ==
    /\ rpc = "except"
    /\ LET decoded == Gb18030Decode(Remaining(file, pos), 1)
       IN  /\ result' = ReadCsv(decoded)
           /\ pos' = IF decoded.ok THEN Len(file.bytes)
                     ELSE ChunkEnd(file, pos + decoded.at)
    /\ rpc' = "done"
    /\ UNCHANGED <<file, pipeVars>>

\* lines 23-24: the workbook parser; its table is not modelled
ReadExcel ==
    /\ rpc = "called"
    /\ file.ext \in {"xlsx", "xls"}
    /\ result' = Returned("workbook", <<>>)
    /\ pos' = Len(file.bytes)
    /\ rpc' = "done"
    /\ UNCHANGED <<file, pipeVars>>

\* lines 25-26: the JSON parser; its table is not modelled
ReadJson ==
    /\ rpc = "called"
    /\ file.ext = "json"
    /\ result' = Returned("json", <<>>)
    /\ pos' = Len(file.bytes)
    /\ rpc' = "done"
    /\ UNCHANGED <<file, pipeVars>>

\* lines 27-29: st.error and None
UnsupportedFormat ==
    /\ rpc = "called"
    /\ file.ext \notin {"csv", "xlsx", "xls", "json"}
    /\ result' = [kind |-> "None", lines |-> <<>>, error |-> "unsupported format"]
    /\ rpc' = "done"
    /\ UNCHANGED <<file, pos, pipeVars>>

IngestNext ==
    \/ ReadCsvUtf8
    \/ ReadCsvGb18030
    \/ ReadExcel
    \/ ReadJson
    \/ UnsupportedFormat

SpecIngest == IngestInit /\ [][IngestNext]_vars

-----------------------------------------------------------------------------
(* main(): the script run *)

\* the state at line 38: read_file has returned a table
Init ==
    /\ \E table \in Tables :
        /\ heap = (1 :> table)
        /\ dtypes = [c \in ColumnSet |-> InferDtype(table, c)]
        /\ stageStart = table
        /\ pre = table
    /\ pc = "loaded"
    /\ data = 1
    /\ todo = <<>>
    /\ allowed = <<>>
    /\ op = NoOp
    /\ reported = -1
    /\ err = ""
    /\ numeric_columns = {}
    /\ grouped_data = <<>>
    /\ file = [ext |-> "csv", bytes |-> <<>>]
    /\ pos = 0
    /\ rpc = "done"
    /\ result = Returned("table", <<>>)

\* line 44: columns_to_filter, in the order the user picked them
SelectFilterColumns ==
    /\ pc = "loaded"
    /\ \E cols \in {<<>>, <<"A">>, <<"B">>, <<"A", "B">>, <<"B", "A">>} :
        /\ todo' = cols
        /\ pc' = IF cols = <<>> THEN "filtered" ELSE "filtering"
    /\ allowed' = <<>>
    /\ stageStart' = heap[data]
    /\ pre' = heap[data]
    /\ op' = NoOp
    /\ heap' = Live
    /\ UNCHANGED <<dtypes, data, reported, err, numeric_columns,
                   grouped_data, ingestVars>>

\* lines 46-50: one iteration of the filter loop
FilterColumn ==
    /\ pc = "filtering"
    /\ LET c == Head(todo)
       IN  \E selected \in SUBSET Unique(heap[data], c) :
            /\ allowed' = allowed @@ (c :> selected)
            /\ pre' = heap[data]
            /\ IF FilterApplies(selected)
               THEN /\ Rebind(Restrict(heap[data], c, selected))
                    /\ op' = [name |-> "isin", column |-> c]
               ELSE /\ heap' = Live
                    /\ data' = data
                    /\ op' = [name |-> "skip", column |-> c]
    /\ todo' = Tail(todo)
    /\ pc' = IF Tail(todo) = <<>> THEN "filtered" ELSE "filtering"
    /\ UNCHANGED <<dtypes, stageStart, reported, err, numeric_columns,
                   grouped_data, ingestVars>>

\* lines 57-59
Deduplicate ==
    /\ pc = "filtered"
    /\ stageStart' = heap[data]
    /\ pre' = heap[data]
    /\ allowed' = <<>>
    /\ \E checked \in BOOLEAN :
        IF checked
        THEN /\ Rebind(DropDuplicates(heap[data]))
             /\ reported' = RowsRemovedMessage(DropDuplicates(heap[data]))
             /\ op' = [name |-> "drop_duplicates", column |-> ""]
        ELSE /\ heap' = Live
             /\ data' = data
             /\ reported' = -1
             /\ op' = NoOp
    /\ pc' = "deduped"
    /\ UNCHANGED <<dtypes, todo, err, numeric_columns, grouped_data, ingestVars>>

\* lines 61-62
StartCleaning ==
    /\ pc = "deduped"
    /\ stageStart' = heap[data]
    /\ pre' = heap[data]
    /\ op' = NoOp
    /\ \E checked \in BOOLEAN :
        IF checked
        THEN /\ todo' = MissingColumns(heap[data])
             /\ pc' = IF MissingColumns(heap[data]) = <<>> THEN "cleaned" ELSE "cleaning"
        ELSE /\ todo' = <<>>
             /\ pc' = "cleaned"
    /\ heap' = Live
    /\ reported' = -1
    /\ UNCHANGED <<dtypes, data, allowed, err, numeric_columns,
                   grouped_data, ingestVars>>

\* lines 63-72: one iteration of the missing-value loop
ImputeColumn ==
    /\ pc = "cleaning"
    /\ \E method \in Methods :
        LET c == Head(todo)
            stat == Statistic(method, NonNull(heap[data], c))
        IN  /\ pre' = heap[data]
            /\ op' = [name |-> method, column |-> c]
            /\ IF method = "dropna"
               THEN /\ Rebind(Dropna(heap[data], c))
                    /\ todo' = Tail(todo)
                    /\ pc' = IF Tail(todo) = <<>> THEN "cleaned" ELSE "cleaning"
                    /\ err' = err
               ELSE IF stat.k = "err"
               THEN /\ pc' = "failed"
                    /\ err' = stat.s
                    /\ heap' = Live
                    /\ UNCHANGED <<data, todo>>
               ELSE /\ heap' = [Live EXCEPT ![data] = Fillna(heap[data], c, stat)]
                    /\ data' = data
                    /\ todo' = Tail(todo)
                    /\ pc' = IF Tail(todo) = <<>> THEN "cleaned" ELSE "cleaning"
                    /\ err' = err
    /\ UNCHANGED <<dtypes, allowed, stageStart, reported, numeric_columns,
                   grouped_data, ingestVars>>

\* lines 78-90: the analysis section reads `data` and computes numeric_columns
Analyse ==
    /\ pc = "cleaned"
    /\ pc' = "analysed"
    /\ numeric_columns' = SelectNumeric(dtypes)
    /\ stageStart' = heap[data]
    /\ pre' = heap[data]
    /\ op' = NoOp
    /\ heap' = Live
    /\ UNCHANGED <<dtypes, data, todo, allowed, reported, err,
                   grouped_data, ingestVars>>

\* lines 159-164
Aggregate ==
    /\ pc = "analysed"
    /\ \E g \in ColumnSet, fn \in AggFunctions :
        IF numeric_columns = {}
        THEN \* agg_column is None: data.groupby(g)[None]
             /\ pc' = "failed"
             /\ err' = "KeyError"
             /\ op' = [name |-> "groupby", column |-> g]
             /\ UNCHANGED grouped_data
        ELSE \E a \in numeric_columns :
             /\ op' = [name |-> "groupby", column |-> g]
             /\ IF g = a
                THEN \* reset_index cannot insert a column that already exists
                     /\ pc' = "failed"
                     /\ err' = "ValueError"
                     /\ UNCHANGED grouped_data
                ELSE /\ pc' = "aggregated"
                     /\ err' = err
                     /\ grouped_data' = GroupBy(heap[data], g, a, fn)
    /\ UNCHANGED <<dtypes, heap, data, todo, allowed, stageStart, pre, reported,
                   numeric_columns, ingestVars>>

Next ==
    \/ SelectFilterColumns
    \/ FilterColumn
    \/ Deduplicate
    \/ StartCleaning
    \/ ImputeColumn
    \/ Analyse
    \/ Aggregate

Spec == Init /\ [][Next]_vars

-----------------------------------------------------------------------------
(* Properties of the script run (checked under Spec) *)

Fills == {"mean", "median", "mode"}

\* the contents of the DataFrame `data` names
Active == heap[data]

InCleaning == pc \in {"cleaning", "cleaned", "failed"} /\ op.name \in Methods

\* C1: the de-duplication section reports a count equal to the row count
\* before drop_duplicates minus the row count after it.
C1_RowsRemovedIsDifference ==
    (pc = "deduped" /\ op.name = "drop_duplicates")
        => reported = Len(pre) - Len(Active)

\* the group keys of the aggregation result
ResultKeys == {grouped_data[j][op.column] : j \in DOMAIN grouped_data}

\* how many rows of the aggregation result carry the group value v
ResultRowsOf(v) ==
    Cardinality({j \in DOMAIN grouped_data : grouped_data[j][op.column] = v})

\* C2 as stated: the aggregation result has one row per distinct value of
\* the group column, null included, and every input row falls in exactly one.
C2_OneRowPerGroupValueNullIncluded ==
    pc = "aggregated"
        => /\ Len(grouped_data) = Cardinality(Unique(Active, op.column))
           /\ \A i \in DOMAIN Active : ResultRowsOf(Active[i][op.column]) = 1

\* C2 amended: the aggregation result has exactly one row per distinct
\* non-null value of the group column; a row whose group value is null
\* falls in no row of the result, every other row in exactly one.
C2_OneRowPerNonNullGroupValue ==
    pc = "aggregated"
        => /\ ResultKeys = {v \in Unique(Active, op.column) : v.k # "null"}
           /\ Len(grouped_data) = Cardinality(ResultKeys)
           /\ \A i \in DOMAIN Active :
                ResultRowsOf(Active[i][op.column]) =
                    IF Active[i][op.column].k = "null" THEN 0 ELSE 1

C2_Witness ==
    /\ pc = "aggregated"
    /\ Len(grouped_data) = 2
    /\ \E i \in DOMAIN Active : Active[i][op.column].k = "null"

\* C3: a section that fails leaves `data` exactly as it was when the section
\* began.
C3_FailedStageLeavesPriorStore ==
    pc = "failed" => Active = stageStart

\* the orders in which the columns of S can be visited
Orders(S) ==
    {o \in [1..Cardinality(S) -> S] : \A i, j \in DOMAIN o : i # j => o[i] # o[j]}

RECURSIVE ApplyRestricts(_, _, _)
\* restrict applied column after column, in the given order
ApplyRestricts(store, order, sel) ==
    IF order = <<>> THEN store
    ELSE ApplyRestricts(Restrict(store, Head(order), sel[Head(order)]), Tail(order), sel)

\* the rows of store whose value in every column of cols is in that column's set
RowsMatching(store, cols, sel) ==
    LET keep == {i \in DOMAIN store : \A c \in cols : store[i][c] \in sel[c]}
        nth(j) == CHOOSE i \in keep : Cardinality({x \in keep : x <= i}) = j
    IN  [j \in 1..Cardinality(keep) |-> store[nth(j)]]

\* C4: with a non-empty selection for every filtered column, the restrict
\* steps give in every order the same rows: those whose value in each
\* filtered column is in that column's selection.
C4_RestrictOrderIrrelevant ==
    (pc = "filtered" /\ \A c \in DOMAIN allowed : allowed[c] # {})
        => /\ Active = RowsMatching(stageStart, DOMAIN allowed, allowed)
           /\ \A o \in Orders(DOMAIN allowed) :
                ApplyRestricts(stageStart, o, allowed) = Active

C4_Witness ==
    /\ pc = "filtered"
    /\ DOMAIN allowed = ColumnSet
    /\ \A c \in DOMAIN allowed : allowed[c] # {}
    /\ Len(Active) > 0
    /\ \E i \in DOMAIN stageStart : stageStart[i]["A"] \notin allowed["A"]
    /\ \E i \in DOMAIN stageStart : stageStart[i]["B"] \notin allowed["B"]

HadString(store, c) == \E i \in DOMAIN store : store[i][c].k = "str"

KeptBy(store, c) == {i \in DOMAIN store : store[i][c].k # "null"}

NthOf(S, j) == CHOOSE i \in S : Cardinality({x \in S : x <= i}) = j

\* C7: imputing a column alters no other column of a row that remains; under
\* the fill policies every other column is as it was.
C7_ImputeLeavesOtherColumns ==
    InCleaning
        => IF op.name = "dropna"
           THEN /\ Len(Active) = Cardinality(KeptBy(pre, op.column))
                /\ \A j \in DOMAIN Active :
                     Active[j] = pre[NthOf(KeptBy(pre, op.column), j)]
           ELSE /\ Len(Active) = Len(pre)
                /\ \A i \in DOMAIN pre : \A c \in ColumnSet \ {op.column} :
                     Active[i][c] = pre[i][c]

C7_Witness ==
    /\ pc \in {"cleaning", "cleaned"}
    /\ op.name \in Fills
    /\ Active # pre
    /\ \E i \in DOMAIN pre : \E c \in ColumnSet \ {op.column} :
         pre[i][c].k = "null" /\ pre[i][op.column].k = "null"

\* C8 as stated: no step changes the DataFrame object it was given: the
\* object `data` named before the step holds the same rows after it.
C8_InputNeverMutated ==
    [][heap'[data] = heap[data]]_vars

\* C8 amended: restrict, drop_duplicates and the drop-rows policy return a new
\* DataFrame and leave the one they were given unchanged; the fill policies
\* change the DataFrame `data` names in place, and there only the cells of
\* the filled column; no other step changes a DataFrame.
C8_PureExceptFill ==
    [][ /\ op'.name \in {"isin", "drop_duplicates", "dropna"}
            => data' # data /\ heap'[data] = heap[data]
        /\ op'.name \in Fills
            => /\ data' = data
               /\ Len(heap'[data]) = Len(heap[data])
               /\ \A i \in DOMAIN heap[data] : \A c \in ColumnSet \ {op'.column} :
                    heap'[data][i][c] = heap[data][i][c]
        /\ op'.name \notin {"isin", "drop_duplicates", "dropna"} \cup Fills
            => data' = data /\ heap'[data] = heap[data]
      ]_vars

C8_Witness ==
    /\ pc \in {"cleaning", "cleaned"}
    /\ op.name \in Fills
    /\ Active # pre
    /\ DOMAIN heap = {data}

LessEq(v, w) == v.n * w.d <= w.n * v.d

\* m is the mean of the cells of column c at positions S (numbers n/1)
IsMeanOf(m, store, c, S) ==
    LET f[T \in SUBSET S] ==
            IF T = {} THEN 0
            ELSE LET i == CHOOSE x \in T : TRUE
                 IN  store[i][c].n + f[T \ {i}]
    IN  /\ m.k = "num"
        /\ m.d > 0
        /\ \A i \in S : store[i][c].d = 1
        /\ m.n * Cardinality(S) = m.d * f[S]
        /\ \A q \in 2..m.d : ~(m.n % q = 0 /\ m.d % q = 0)

\* x is the cell at rank p (1 = smallest) among the cells at positions S
AtRank(x, p, store, c, S) ==
    /\ \E i \in S : store[i][c] = x
    /\ Cardinality({i \in S : ~LessEq(x, store[i][c])}) < p
    /\ p <= Cardinality({i \in S : LessEq(store[i][c], x)})

\* m is the median: the middle cell, or halfway between the two middle cells
IsMedianOf(m, store, c, S) ==
    LET n == Cardinality(S)
    IN  \E lo, hi \in {store[i][c] : i \in S} :
            /\ AtRank(lo, (n + 1) \div 2, store, c, S)
            /\ AtRank(hi, n \div 2 + 1, store, c, S)
            /\ m.k = "num"
            /\ m.d > 0
            /\ m.n * (2 * lo.d * hi.d) = m.d * (lo.n * hi.d + hi.n * lo.d)
            /\ \A q \in 2..m.d : ~(m.n % q = 0 /\ m.d % q = 0)

Occurrences(v, store, c, S) == Cardinality({i \in S : store[i][c] = v})

\* m is the most frequent cell, the first in sort order among the most frequent
IsModeOf(m, store, c, S) ==
    /\ \E i \in S : store[i][c] = m
    /\ \A i \in S :
        LET w == store[i][c]
        IN  /\ Occurrences(w, store, c, S) <= Occurrences(m, store, c, S)
            /\ Occurrences(w, store, c, S) = Occurrences(m, store, c, S)
                   => ~Less(w, m)

IsStatisticOf(m, method, store, c, S) ==
    IF method = "mean" THEN IsMeanOf(m, store, c, S)
    ELSE IF method = "median" THEN IsMedianOf(m, store, c, S)
    ELSE IsModeOf(m, store, c, S)

FillApplied ==
    /\ pc \in {"cleaning", "cleaned"}
    /\ op.name \in Fills
    /\ \E i \in DOMAIN pre : pre[i][op.column].k = "null"

\* C9 as stated: after a fill policy is applied to a column that had a null,
\* the column holds no null and the row count is unchanged, for every such
\* column, one whose values are all null included.
C9_FillLeavesNoNull ==
    FillApplied
        => /\ Len(Active) = Len(pre)
           /\ \A i \in DOMAIN Active : Active[i][op.column].k # "null"

\* C9 amended: after a fill policy is applied to a column that had a null and
\* at least one non-null value, the column holds no null, every formerly null
\* cell holds the statistic of the column's non-null values, the other cells
\* and the row count are unchanged.  On a column whose values are all null,
\* fill-mean and fill-median leave every cell null, and fill-mode is never
\* applied (the script run fails there).
C9_FillSubstitutesStatistic ==
    FillApplied
        => IF KeptBy(pre, op.column) # {}
           THEN /\ Len(Active) = Len(pre)
                /\ \A i \in DOMAIN pre :
                     IF pre[i][op.column].k = "null"
                     THEN /\ Active[i][op.column].k # "null"
                          /\ IsStatisticOf(Active[i][op.column], op.name, pre,
                                           op.column, KeptBy(pre, op.column))
                     ELSE Active[i][op.column] = pre[i][op.column]
           ELSE /\ op.name # "mode"
                /\ Active = pre

C9_Witness ==
    /\ FillApplied
    /\ op.name = "mean"
    /\ \E i \in DOMAIN Active : Active[i][op.column].d = 2

\* C10: a column picked for filtering with nothing selected for it imposes no
\* restriction: its step keeps every row, and the filtered rows are those
\* matching the non-empty selections alone; the filtered table is empty only
\* if the table was empty or a non-empty selection was made.
C10_EmptySelectionKeepsAllRows ==
    /\ (pc \in {"filtering", "filtered"} /\ op.column # "" /\ allowed[op.column] = {})
          => Active = pre
    /\ pc = "filtered"
          => /\ Active = RowsMatching(stageStart,
                                      {c \in DOMAIN allowed : allowed[c] # {}}, allowed)
             /\ Len(Active) = 0
                  => Len(stageStart) = 0 \/ \E c \in DOMAIN allowed : allowed[c] # {}

C10_Witness ==
    /\ pc = "filtered"
    /\ DOMAIN allowed = ColumnSet
    /\ allowed["B"] = {}
    /\ allowed["A"] # {}
    /\ op.column = "B"
    /\ Len(Active) > 0
    /\ Len(Active) < Len(stageStart)

-----------------------------------------------------------------------------
(* Properties of read_file (checked under SpecIngest) *)

\* C5: for csv bytes that are not valid UTF-8 but are valid GB18030,
\* read_file returns the table a GB18030 parse of the whole payload gives.
C5_FallbackParsesWholePayload ==
    (/\ rpc = "done"
     /\ file.ext = "csv"
     /\ ~Utf8Decode(file.bytes, 1).ok
     /\ Gb18030Decode(file.bytes, 1).ok)
        => result = ParseCsv(Gb18030Decode(file.bytes, 1).text)

====
